---- MODULE Spec2Model ----
(***************************************************************************)
(* The boardgame.io JS client (src/client/client.js): the dispatcher       *)
(* factory, the log middleware that keeps the client's log, getState's     *)
(* isActive rule, the playerID / gameID / credentials mutators, step(),    *)
(* subscribe() and the composition of the store's enhancers.               *)
(*                                                                         *)
(* The reducer, the action creators, game.flow, the transport and the bot  *)
(* live outside client.js; they are modelled from the specification (see   *)
(* Reducer, MakeAction, canPlayerMakeMove, Transport and BotPlays).        *)
(***************************************************************************)
EXTENDS Naturals, Sequences, FiniteSets

(* ------------------------------------------------------------------ *)
(* Bounds of the model.                                               *)
(* ------------------------------------------------------------------ *)

\* longest log the client is let to hold
MaxLog == 2
\* longest deltalog / log one action brings (reducer or remote master)
MaxDelta == 1

(* ------------------------------------------------------------------ *)
(* Values.                                                            *)
(* ------------------------------------------------------------------ *)

\* JavaScript's null and undefined
Null == "null"
Undef == "undefined"

\* the players of the game (numPlayers = 2)
PlayerIDs == {"0", "1"}
\* what a caller may pass as playerID
ConfigIDs == PlayerIDs \cup {Null, Undef}
\* what a caller may pass as credentials
Credentials == {Undef, "secret"}
\* what a caller may pass as multiplayer, after the {server} object has
\* been normalised to true
MultiplayerOpts == {Undef, "true"}

\* what a caller may pass as gameID
GameIDs == {"game1", "game2"}
\* what a caller may pass as ai: nothing, or a bot with its enumerate
AiOpts == {Undef, "bot"}
\* what a caller may pass as enhancer: nothing, or an enhancer that applies
\* a middleware of the caller
EnhancerOpts == {Undef, "middleware"}
\* the metadata a bot returns with its action
BotMetadata == "metadata"

\* truthiness of the multiplayer flag
Truthy(m) == m = "true"

\* log entries: the record of a move and the record of an event
MoveEntry == "m"
EventEntry == "e"
LogEntries == {MoveEntry, EventEntry}
\* opaque values of G
GValues == {"g0"}

SeqsUpTo(S, n) == UNION {[1..k -> S] : k \in 0..n}

\* action types of core/action-types
MAKE_MOVE == "MAKE_MOVE"
GAME_EVENT == "GAME_EVENT"
RESET == "RESET"
UNDO == "UNDO"
REDO == "REDO"
UPDATE == "UPDATE"
SYNC == "SYNC"
\* an action type the log middleware has no case for (redux's own @@INIT,
\* or one a caller's enhancer dispatches)
OTHER_TYPE == "OTHER"

moveNames == {"draw"}
eventNames == {"endTurn"}

\* an optional array field of an action
Absent == [present |-> FALSE, entries |-> <<>>]
Present(entries) == [present |-> TRUE, entries |-> entries]
\* JavaScript's  x || []
OrEmpty(field) == IF field.present THEN field.entries ELSE <<>>

\* the contexts game.flow can produce
Ctxs ==
    {[currentPlayer |-> p, actionPlayers |-> ap, gameover |-> g] :
        p \in PlayerIDs, ap \in {<<>>, <<"0">>, <<"any">>}, g \in {Undef, "won"}}

\* the state the reducer starts from
InitialState ==
    [G |-> "g0",
     ctx |-> [currentPlayer |-> "0", actionPlayers |-> <<"0">>, gameover |-> Undef],
     deltalog |-> <<>>,
     log |-> Present(<<>>)]

\* what the opaque collaborator contributes to one dispatch: for a move or
\* an event, whether the game accepts it and the state and log entries it
\* then computes; for UPDATE and SYNC, the state the master sends; for undo
\* and redo, the state restored
Outcome(accepted, G, ctx, entries) ==
    [accepted |-> accepted, G |-> G, ctx |-> ctx, entries |-> entries]
NoOutcome == Outcome(FALSE, InitialState.G, InitialState.ctx, <<>>)
\* the deltalogs of one applied action: its own entry, then the entries of
\* the events the game flow triggered after it
Deltalogs(entry) ==
    {[i \in 1..k |-> IF i = 1 THEN entry ELSE EventEntry] : k \in 1..MaxDelta}
\* a move or an event: not applied, or applied with its deltalog
GameOutcomes(entry) ==
    {NoOutcome} \cup
    {Outcome(TRUE, g, c, e) : g \in GValues, c \in Ctxs, e \in Deltalogs(entry)}
\* undo and redo: nothing to restore, or G and ctx restored
UndoOutcomes ==
    {NoOutcome} \cup {Outcome(TRUE, g, c, <<>>) : g \in GValues, c \in Ctxs}
\* the state the master sends along with a deltalog or a log
MasterOutcomes(deltalog) ==
    {Outcome(TRUE, g, c, deltalog) : g \in GValues, c \in Ctxs}
\* the optional array a remote action carries
RemoteLogs ==
    {Absent} \cup {Present(e) : e \in SeqsUpTo(LogEntries, MaxDelta)}

VARIABLES
    multiplayer,   \* this.multiplayer
    playerID,      \* this.playerID
    credentials,   \* this.credentials
    moves,         \* this.moves: what its closures captured
    events,        \* this.events: what its closures captured
    heldMoves,     \* a client.moves object the caller read earlier and kept
    state,         \* store.getState()
    log,           \* this.log
    dispatched,    \* history: the action of the last store.dispatch, NoAction
                   \* when the last client operation dispatched nothing
    via,           \* history: the entry point that made that dispatch
    prevLog,       \* history: this.log before the last client operation
    produced,      \* history: the log entries the reducer produced for the
                   \* action of the last dispatch
    gameID,        \* this.gameID
    transport,     \* this.multiplayerClient: its playerID and gameID
    called,        \* history: the last client operation that changed the
                   \* identity, and the transport method it called
    ai,            \* the ai option the client was constructed with
    step,          \* whether this.step is defined
    stepped,       \* history: what the last step() asked the bot and returned
    subscribed,    \* whether a callback was registered with subscribe()
    notified,      \* history: getState().log as the callback saw it when the
                   \* store notified it of the last dispatch
    enhancer,      \* the enhancer option the client was constructed with
    mwSaw,         \* history: this.log when the caller's middleware ran for
                   \* the last dispatch
    stale          \* history: whether the last dispatch was a move or an
                   \* event that produced no entry while the store's state
                   \* held the deltalog of an earlier action

vars ==
    <<multiplayer, playerID, credentials, moves, events, heldMoves, state,
      log, dispatched, via, prevLog, produced, gameID, transport, called,
      ai, step, stepped, subscribed, notified, enhancer, mwSaw, stale>>

NoAction ==
    [type |-> "NONE", name |-> Undef, playerID |-> Undef,
     credentials |-> Undef, deltalog |-> Absent, log |-> Absent,
     metadata |-> Undef]

\* a client without this.multiplayerClient
NoTransport == [attached |-> FALSE, playerID |-> Undef, gameID |-> Undef]

\* an operation that is no identity mutator and calls no transport method
NoCall == [op |-> "none", transport |-> "none"]

\* an operation that is no step()
NoStep == [called |-> FALSE, asked |-> Undef, returned |-> NoAction]

NoDispatchers ==
    [bound |-> FALSE, playerID |-> Undef, credentials |-> Undef,
     multiplayer |-> Undef]

IsPrefix(s, t) ==
    /\ Len(s) <= Len(t)
    /\ \A i \in 1..Len(s) : s[i] = t[i]

(* ------------------------------------------------------------------ *)
(* Collaborators, modelled from the specification.                    *)
(* ------------------------------------------------------------------ *)

\* ActionCreators.makeMove / ActionCreators.gameEvent
MakeAction(type, name, pid, cred) ==
    [type |-> type, name |-> name, playerID |-> pid, credentials |-> cred,
     deltalog |-> Absent, log |-> Absent,
     metadata |-> Undef]

\* ActionCreators.reset / undo / redo
ControlAction(type) ==
    [type |-> type, name |-> Undef, playerID |-> Undef,
     credentials |-> Undef, deltalog |-> Absent, log |-> Absent,
     metadata |-> Undef]

\* the UPDATE / SYNC action the transport dispatches
RemoteAction(type, deltalog, fulllog) ==
    [type |-> type, name |-> Undef, playerID |-> Undef,
     credentials |-> Undef, deltalog |-> deltalog, log |-> fulllog,
     metadata |-> Undef]

\* new Multiplayer({ gameID, playerID, ... }): the transport keeps the ids
\* it was given
Transport(gid, pid) == [attached |-> TRUE, playerID |-> pid, gameID |-> gid]

\* bot.play(state, playerID): the bot finds nothing to play, or returns a
\* move for the player it was asked about together with its metadata
NoBotAction == [action |-> NoAction, metadata |-> Undef]
BotPlays(s, pid) ==
    {NoBotAction} \cup
    {[action |-> MakeAction(MAKE_MOVE, name, pid, Undef),
      metadata |-> BotMetadata] : name \in moveNames}

\* game.flow.canPlayerMakeMove(G, ctx, playerID)
canPlayerMakeMove(G, ctx, pid) ==
    \E i \in 1..Len(ctx.actionPlayers) :
        ctx.actionPlayers[i] = pid \/ ctx.actionPlayers[i] = "any"

\* a reducer that returns the state it was given when the game does not
\* apply a move or an event
Reducer_ReturnsStateOnReject(s, a, o) ==
    CASE a.type \in {MAKE_MOVE, GAME_EVENT} ->
            IF o.accepted
            THEN [G |-> o.G, ctx |-> o.ctx, deltalog |-> o.entries, log |-> s.log]
            ELSE s
      [] a.type = RESET -> InitialState
      [] a.type \in {UPDATE, SYNC} ->
            [G |-> o.G, ctx |-> o.ctx, deltalog |-> o.entries,
             log |-> InitialState.log]
      [] a.type \in {UNDO, REDO} ->
            IF o.accepted THEN [s EXCEPT !.G = o.G, !.ctx = o.ctx] ELSE s
      [] OTHER -> s

\* the reducer of CreateGameReducer: a move or an event gets the deltalog
\* of that single action (empty when the game does not apply it); reset
\* restores the initial state; UPDATE and SYNC install the master's state;
\* undo and redo restore G and ctx; any other action leaves the state alone
Reducer(s, a, o) ==
    CASE a.type \in {MAKE_MOVE, GAME_EVENT} ->
            IF o.accepted
            THEN [G |-> o.G, ctx |-> o.ctx, deltalog |-> o.entries, log |-> s.log]
            ELSE [s EXCEPT !.deltalog = <<>>]
      [] a.type = RESET -> InitialState
      [] a.type \in {UPDATE, SYNC} ->
            [G |-> o.G, ctx |-> o.ctx, deltalog |-> o.entries,
             log |-> InitialState.log]
      [] a.type \in {UNDO, REDO} ->
            IF o.accepted THEN [s EXCEPT !.G = o.G, !.ctx = o.ctx] ELSE s
      [] OTHER -> s

\* the log entries the reducer produces for action `a` alone
Produced(a, o) ==
    IF a.type \in {MAKE_MOVE, GAME_EVENT} /\ o.accepted THEN o.entries ELSE <<>>

(* ------------------------------------------------------------------ *)
(* client.js                                                          *)
(* ------------------------------------------------------------------ *)

\* a log middleware that assigns the deltalog of a move instead of
\* appending it
LogMiddleware_AssignsDeltalog(l, a, post) ==
    CASE a.type \in {MAKE_MOVE, GAME_EVENT} -> post.deltalog
      [] a.type = RESET -> <<>>
      [] a.type = UPDATE -> l \o OrEmpty(a.deltalog)
      [] a.type = SYNC -> OrEmpty(a.log)
      [] OTHER -> l

\* a log middleware that appends the log of a SYNC, as it does for UPDATE
LogMiddleware_SyncAppends(l, a, post) ==
    CASE a.type \in {MAKE_MOVE, GAME_EVENT} -> l \o post.deltalog
      [] a.type = RESET -> <<>>
      [] a.type = UPDATE -> l \o OrEmpty(a.deltalog)
      [] a.type = SYNC -> l \o OrEmpty(a.log)
      [] OTHER -> l

\* a log middleware that assigns the deltalog of an UPDATE, as it does for
\* SYNC
LogMiddleware_UpdateAssigns(l, a, post) ==
    CASE a.type \in {MAKE_MOVE, GAME_EVENT} -> l \o post.deltalog
      [] a.type = RESET -> <<>>
      [] a.type = UPDATE -> OrEmpty(a.deltalog)
      [] a.type = SYNC -> OrEmpty(a.log)
      [] OTHER -> l

\* a log middleware with no case for RESET
LogMiddleware_NoReset(l, a, post) ==
    CASE a.type \in {MAKE_MOVE, GAME_EVENT} -> l \o post.deltalog
      [] a.type = UPDATE -> l \o OrEmpty(a.deltalog)
      [] a.type = SYNC -> OrEmpty(a.log)
      [] OTHER -> l

\* a log middleware that drops the last entry on UNDO
LogMiddleware_UndoPops(l, a, post) ==
    CASE a.type \in {MAKE_MOVE, GAME_EVENT} -> l \o post.deltalog
      [] a.type = RESET -> <<>>
      [] a.type = UPDATE -> l \o OrEmpty(a.deltalog)
      [] a.type = SYNC -> OrEmpty(a.log)
      [] a.type = UNDO -> IF l = <<>> THEN l ELSE SubSeq(l, 1, Len(l) - 1)
      [] OTHER -> l

\* a log middleware that clears the log on UNDO, as it does on RESET
LogMiddleware_UndoClears(l, a, post) ==
    CASE a.type \in {MAKE_MOVE, GAME_EVENT} -> l \o post.deltalog
      [] a.type \in {RESET, UNDO} -> <<>>
      [] a.type = UPDATE -> l \o OrEmpty(a.deltalog)
      [] a.type = SYNC -> OrEmpty(a.log)
      [] OTHER -> l

\* LogMiddleware's switch: the log after `a` was applied and left `post`
\* in the store
LogMiddleware(l, a, post) ==
    CASE a.type \in {MAKE_MOVE, GAME_EVENT} -> l \o post.deltalog
      [] a.type = RESET -> <<>>
      [] a.type = UPDATE -> l \o OrEmpty(a.deltalog)
      [] a.type = SYNC -> OrEmpty(a.log)
      [] OTHER -> l

\* what the middleware of the caller's enhancer may do with an action it
\* is given: hand it to its next, or drop it; without an enhancer the
\* action goes straight to the store's own dispatch
MiddlewareChoices ==
    IF enhancer = Undef THEN {"absent"} ELSE {"next", "drop"}

\* this.log while LogMiddleware's next(action) runs: `before` is the log
\* when store.dispatch was called, `after` the log the switch assigns; the
\* switch runs when next(action) has returned
LogDuringNext(before, after) == before

\* store.dispatch(a), called from entry point `from`, with the caller's
\* middleware doing `m`. LogMiddleware is the outermost middleware: its
\* next(a) runs the caller's middleware, which hands the action to the
\* store's own dispatch or not; that dispatch runs the reducer and calls
\* the subscribed callbacks; then LogMiddleware reads the store's state
\* and runs its switch on a.type.
StoreDispatch(a, o, from, m) ==
    LET reached == m # "drop"
        post == IF reached THEN Reducer(state, a, o) ELSE state
        newlog == LogMiddleware(log, a, post)
        during == LogDuringNext(log, newlog)
    IN  /\ Len(newlog) <= MaxLog
        /\ state' = post
        /\ log' = newlog
        /\ dispatched' = a
        /\ via' = from
        /\ prevLog' = log
        /\ produced' = IF reached THEN Produced(a, o) ELSE <<>>
        /\ notified' = IF reached /\ subscribed THEN Present(during) ELSE Absent
        /\ mwSaw' = IF enhancer # Undef THEN Present(during) ELSE Absent
        /\ called' = NoCall
        /\ stale' = /\ a.type \in {MAKE_MOVE, GAME_EVENT}
                    /\ produced' = <<>>
                    /\ state.deltalog # <<>>

\* store.dispatch(a) from an entry point other than step()
Dispatch(a, o, from) ==
    /\ \E m \in MiddlewareChoices : StoreDispatch(a, o, from, m)
    /\ stepped' = NoStep

\* the store is left alone: nothing is dispatched
NoStoreDispatch ==
    /\ dispatched' = NoAction
    /\ via' = "none"
    /\ prevLog' = log
    /\ produced' = <<>>
    /\ notified' = Absent
    /\ mwSaw' = Absent
    /\ stale' = FALSE
    /\ UNCHANGED <<state, log>>

\* a client operation other than step() that dispatches nothing
NoDispatch ==
    /\ NoStoreDispatch
    /\ stepped' = NoStep

\* createDispatchers: what the closures of one dispatcher object capture
createDispatchers(pid, cred, mp) ==
    [bound |-> TRUE, playerID |-> pid, credentials |-> cred, multiplayer |-> mp]

\* a dispatcher that resolves the current player in multiplayer mode too
assumedPlayerID_IgnoresMultiplayer(d, s) ==
    IF d.playerID = Null \/ d.playerID = Undef
    THEN s.ctx.currentPlayer
    ELSE d.playerID

\* the playerID a dispatcher attaches (assumedPlayerID)
assumedPlayerID(d, s) ==
    IF ~Truthy(d.multiplayer) /\ (d.playerID = Null \/ d.playerID = Undef)
    THEN s.ctx.currentPlayer
    ELSE d.playerID

\* a dispatcher that reads the client's playerID when it is called
CallDispatcher_ReadsClient(d, type, name, o, from) ==
    Dispatch(MakeAction(type, name,
                        assumedPlayerID([d EXCEPT !.playerID = playerID], state),
                        d.credentials), o, from)

\* dispatchers[name](...args)
CallDispatcher(d, type, name, o, from) ==
    Dispatch(MakeAction(type, name, assumedPlayerID(d, state), d.credentials),
             o, from)

\* an isActive without the final gameover test
isActive_NoGameover ==
    LET can == canPlayerMakeMove(state.G, state.ctx, playerID)
        a1 == IF Truthy(multiplayer) /\ ~can THEN FALSE ELSE TRUE
    IN  IF /\ ~Truthy(multiplayer)
           /\ playerID # Null
           /\ playerID # Undef
           /\ ~can
        THEN FALSE ELSE a1

\* an isActive that tests canPlayerMakeMove whatever the mode and the id
isActive_AlwaysTestsCan ==
    LET can == canPlayerMakeMove(state.G, state.ctx, playerID)
    IN  IF state.ctx.gameover # Undef THEN FALSE ELSE can

\* an isActive that skips an unset playerID in multiplayer mode too
isActive_SkipsUnsetInMultiplayer ==
    LET can == canPlayerMakeMove(state.G, state.ctx, playerID)
    IN  IF state.ctx.gameover # Undef
        THEN FALSE
        ELSE IF playerID # Null /\ playerID # Undef /\ ~can THEN FALSE ELSE TRUE

\* an isActive rule that takes a null playerID for a player's id in
\* single-player mode
isActiveOf_NullIsAnID(mp, pid, s) ==
    LET can == canPlayerMakeMove(s.G, s.ctx, pid)
        a1 == IF Truthy(mp) /\ ~can THEN FALSE ELSE TRUE
        a2 == IF ~Truthy(mp) /\ pid # Undef /\ ~can THEN FALSE ELSE a1
    IN  IF s.ctx.gameover # Undef THEN FALSE ELSE a2

\* getState()'s isActive rule, for a client in mode `mp` with playerID
\* `pid` and store state `s`
isActiveOf(mp, pid, s) ==
    LET can == canPlayerMakeMove(s.G, s.ctx, pid)
        a1 == IF Truthy(mp) /\ ~can THEN FALSE ELSE TRUE
        a2 == IF /\ ~Truthy(mp)
                 /\ pid # Null
                 /\ pid # Undef
                 /\ ~can
              THEN FALSE ELSE a1
    IN  IF s.ctx.gameover # Undef THEN FALSE ELSE a2

\* getState().isActive
isActive == isActiveOf(multiplayer, playerID, state)

\* a getState that spreads the store's state over the client's log
getState_StateLogWins ==
    [G |-> state.G, ctx |-> state.ctx, deltalog |-> state.deltalog,
     isActive |-> isActive,
     log |-> IF state.log.present THEN state.log.entries ELSE log]

\* getState(): the store's state, with isActive and G, and with this.log
\* in the place of the state's own log
getState ==
    [G |-> state.G, ctx |-> state.ctx, deltalog |-> state.deltalog,
     isActive |-> isActive, log |-> log]

\* the constructor, called with these options
Construct(mp, pid, cred, gid, aiopt, enh) ==
    LET p == IF ~Truthy(mp) /\ pid = Null THEN Undef ELSE pid
    IN  /\ multiplayer = mp
        /\ playerID = p
        /\ credentials = cred
        /\ moves = createDispatchers(p, cred, mp)
        /\ events = createDispatchers(p, cred, mp)
        /\ heldMoves = NoDispatchers
        /\ state = InitialState
        /\ log = <<>>
        /\ dispatched = NoAction
        /\ via = "none"
        /\ prevLog = <<>>
        /\ produced = <<>>
        /\ gameID = gid
        /\ transport = IF Truthy(mp) THEN Transport(gid, pid) ELSE NoTransport
        /\ called = NoCall
        /\ ai = aiopt
        /\ step = (aiopt # Undef /\ mp = Undef)
        /\ stepped = NoStep
        /\ subscribed = FALSE
        /\ notified = Absent
        /\ enhancer = enh
        /\ mwSaw = Absent
        /\ stale = FALSE

\* a client constructed without ai and without enhancer, for one game
Init ==
    \E mp \in MultiplayerOpts, pid \in ConfigIDs, cred \in Credentials :
        Construct(mp, pid, cred, "game1", Undef, Undef)

Config ==
    <<multiplayer, playerID, credentials, moves, events, heldMoves, gameID,
      transport, ai, step, subscribed, enhancer>>

\* client.moves[name](...)
MakeMove ==
    \E name \in moveNames, o \in GameOutcomes(MoveEntry) :
        /\ CallDispatcher(moves, MAKE_MOVE, name, o, "moves")
        /\ UNCHANGED Config

\* client.events[name](...)
GameEvent ==
    \E name \in eventNames, o \in GameOutcomes(EventEntry) :
        /\ CallDispatcher(events, GAME_EVENT, name, o, "events")
        /\ UNCHANGED Config

\* the caller keeps a reference to the current client.moves
HoldMoves ==
    /\ heldMoves' = moves
    /\ NoDispatch
    /\ called' = NoCall
    /\ UNCHANGED <<multiplayer, playerID, credentials, moves, events, gameID,
                   transport, ai, step, subscribed, enhancer>>

\* the caller invokes a move of the client.moves object it kept
HeldMove ==
    /\ heldMoves.bound
    /\ \E name \in moveNames, o \in GameOutcomes(MoveEntry) :
           CallDispatcher(heldMoves, MAKE_MOVE, name, o, "heldMoves")
    /\ UNCHANGED Config

\* client.reset()
Reset ==
    /\ Dispatch(ControlAction(RESET), NoOutcome, "reset")
    /\ UNCHANGED Config

\* client.undo()
Undo ==
    /\ \E o \in UndoOutcomes : Dispatch(ControlAction(UNDO), o, "undo")
    /\ UNCHANGED Config

\* client.redo()
Redo ==
    /\ \E o \in UndoOutcomes : Dispatch(ControlAction(REDO), o, "redo")
    /\ UNCHANGED Config

\* the transport dispatches UPDATE, with or without a deltalog
RemoteUpdate ==
    /\ Truthy(multiplayer)
    /\ \E d \in RemoteLogs : \E o \in MasterOutcomes(OrEmpty(d)) :
           Dispatch(RemoteAction(UPDATE, d, Absent), o, "transport")
    /\ UNCHANGED Config

\* the transport dispatches SYNC, with or without a log
RemoteSync ==
    /\ Truthy(multiplayer)
    /\ \E l \in RemoteLogs : \E o \in MasterOutcomes(<<>>) :
           Dispatch(RemoteAction(SYNC, Absent, l), o, "transport")
    /\ UNCHANGED Config

\* an action of another type goes through the store
OtherAction ==
    /\ Dispatch(ControlAction(OTHER_TYPE), NoOutcome, "store")
    /\ UNCHANGED Config

\* client.subscribe(fn)
Subscribe ==
    /\ subscribed' = TRUE
    /\ NoDispatch
    /\ called' = NoCall
    /\ UNCHANGED <<multiplayer, playerID, credentials, moves, events,
                   heldMoves, gameID, transport, ai, step, enhancer>>

\* a step() that asks the bot about ctx.currentPlayer
Step_AsksCurrentPlayer ==
    /\ step
    /\ LET pid == state.ctx.currentPlayer
       IN  \E r \in BotPlays(state, pid) :
               IF r.action # NoAction
               THEN LET a == [r.action EXCEPT !.metadata = r.metadata]
                    IN  /\ \E o \in GameOutcomes(MoveEntry),
                              m \in MiddlewareChoices :
                               StoreDispatch(a, o, "step", m)
                        /\ stepped' = [called |-> TRUE, asked |-> pid,
                                       returned |-> a]
               ELSE /\ NoStoreDispatch
                    /\ called' = NoCall
                    /\ stepped' = [called |-> TRUE, asked |-> pid,
                                   returned |-> NoAction]
    /\ UNCHANGED Config

\* client.step(), defined when the client has a bot: the bot is asked
\* about the store's state and ctx.actionPlayers[0]; its action, if any,
\* gets the metadata, is dispatched and returned
Step ==
    /\ step
    /\ LET pid == IF state.ctx.actionPlayers = <<>>
                  THEN Undef
                  ELSE state.ctx.actionPlayers[1]
       IN  \E r \in BotPlays(state, pid) :
               IF r.action # NoAction
               THEN LET a == [r.action EXCEPT !.metadata = r.metadata]
                    IN  /\ \E o \in GameOutcomes(MoveEntry),
                              m \in MiddlewareChoices :
                               StoreDispatch(a, o, "step", m)
                        /\ stepped' = [called |-> TRUE, asked |-> pid,
                                       returned |-> a]
               ELSE /\ NoStoreDispatch
                    /\ called' = NoCall
                    /\ stepped' = [called |-> TRUE, asked |-> pid,
                                   returned |-> NoAction]
    /\ UNCHANGED Config

\* what does not belong to the client's identity
Options == <<multiplayer, heldMoves, ai, step, subscribed, enhancer>>

\* client.updatePlayerID(pid)
updatePlayerID ==
    \E pid \in ConfigIDs :
        /\ playerID' = pid
        /\ moves' = createDispatchers(pid, credentials, multiplayer)
        /\ events' = createDispatchers(pid, credentials, multiplayer)
        /\ IF transport.attached
           THEN /\ transport' = [transport EXCEPT !.playerID = pid]
                /\ called' = [op |-> "updatePlayerID",
                              transport |-> "updatePlayerID"]
           ELSE /\ transport' = transport
                /\ called' = [op |-> "updatePlayerID", transport |-> "none"]
        /\ NoDispatch
        /\ UNCHANGED <<credentials, gameID, Options>>

\* an updateGameID that does not tell the transport
updateGameID_ClientOnly ==
    \E gid \in GameIDs :
        /\ gameID' = gid
        /\ moves' = createDispatchers(playerID, credentials, multiplayer)
        /\ events' = createDispatchers(playerID, credentials, multiplayer)
        /\ transport' = transport
        /\ called' = [op |-> "updateGameID", transport |-> "none"]
        /\ NoDispatch
        /\ UNCHANGED <<playerID, credentials, Options>>

\* client.updateGameID(gid)
updateGameID ==
    \E gid \in GameIDs :
        /\ gameID' = gid
        /\ moves' = createDispatchers(playerID, credentials, multiplayer)
        /\ events' = createDispatchers(playerID, credentials, multiplayer)
        /\ IF transport.attached
           THEN /\ transport' = [transport EXCEPT !.gameID = gid]
                /\ called' = [op |-> "updateGameID",
                              transport |-> "updateGameID"]
           ELSE /\ transport' = transport
                /\ called' = [op |-> "updateGameID", transport |-> "none"]
        /\ NoDispatch
        /\ UNCHANGED <<playerID, credentials, Options>>

\* an updateCredentials that leaves the dispatchers as they are
updateCredentials_NoRebuild ==
    \E cred \in Credentials :
        /\ credentials' = cred
        /\ called' = [op |-> "updateCredentials", transport |-> "none"]
        /\ NoDispatch
        /\ UNCHANGED <<moves, events, playerID, gameID, transport, Options>>

\* client.updateCredentials(cred)
updateCredentials ==
    \E cred \in Credentials :
        /\ credentials' = cred
        /\ moves' = createDispatchers(playerID, cred, multiplayer)
        /\ events' = createDispatchers(playerID, cred, multiplayer)
        /\ called' = [op |-> "updateCredentials", transport |-> "none"]
        /\ NoDispatch
        /\ UNCHANGED <<playerID, gameID, transport, Options>>

\* every way an action reaches the store
Dispatches ==
    \/ MakeMove
    \/ GameEvent
    \/ Reset
    \/ Undo
    \/ Redo
    \/ RemoteUpdate
    \/ RemoteSync
    \/ OtherAction

Next ==
    \/ Dispatches
    \/ updatePlayerID
    \/ updateCredentials

\* the client driven by a caller that reads client.moves anew for each call
Spec == Init /\ [][Next]_vars

\* a client constructed without credentials
InitHeld == Init /\ credentials = Undef

NextHeld ==
    \/ MakeMove
    \/ GameEvent
    \/ Reset
    \/ RemoteUpdate
    \/ RemoteSync
    \/ updatePlayerID
    \/ HoldMoves
    \/ HeldMove

\* the client driven by a caller that may also keep a client.moves object
\* across updatePlayerID calls
SpecHeld == InitHeld /\ [][NextHeld]_vars

\* a client constructed without credentials whose caller makes moves and
\* events and changes its playerID, gameID and credentials
InitIds ==
    \E mp \in MultiplayerOpts, pid \in ConfigIDs :
        Construct(mp, pid, Undef, "game1", Undef, Undef)

NextIds ==
    \/ MakeMove
    \/ GameEvent
    \/ RemoteUpdate
    \/ RemoteSync
    \/ updatePlayerID
    \/ updateGameID
    \/ updateCredentials

SpecIds == InitIds /\ [][NextIds]_vars

\* a client constructed with or without a bot
InitStep ==
    \E mp \in MultiplayerOpts, pid \in ConfigIDs, aiopt \in AiOpts :
        Construct(mp, pid, Undef, "game1", aiopt, Undef)

NextStep ==
    \/ Dispatches
    \/ Step
    \/ updatePlayerID

SpecStep == InitStep /\ [][NextStep]_vars

\* a client whose caller may subscribe a callback
InitSub ==
    \E mp \in MultiplayerOpts, pid \in ConfigIDs :
        Construct(mp, pid, Undef, "game1", Undef, Undef)

NextSub ==
    \/ Dispatches
    \/ Subscribe

SpecSub == InitSub /\ [][NextSub]_vars

\* a client constructed with or without an enhancer of the caller
InitEnh ==
    \E mp \in MultiplayerOpts, pid \in ConfigIDs, enh \in EnhancerOpts :
        Construct(mp, pid, Undef, "game1", Undef, enh)

NextEnh ==
    \/ Dispatches
    \/ updatePlayerID

SpecEnh == InitEnh /\ [][NextEnh]_vars

(* ------------------------------------------------------------------ *)
(* Properties.                                                        *)
(* ------------------------------------------------------------------ *)

SinglePlayer == ~Truthy(multiplayer)
Unset(pid) == pid = Null \/ pid = Undef
IsMove(a) == a.type = MAKE_MOVE \/ a.type = GAME_EVENT
CanMove == canPlayerMakeMove(state.G, state.ctx, playerID)
GameOver == state.ctx.gameover # Undef

C2_SyncReplacesLog ==
    dispatched.type = SYNC =>
        /\ log = OrEmpty(dispatched.log)
        /\ getState.log = OrEmpty(dispatched.log)
        /\ (~dispatched.log.present => log = <<>>)

\* a SYNC carrying a log replaced a log that is no prefix of it
C2_Witness ==
    /\ dispatched.type = SYNC
    /\ dispatched.log.present
    /\ dispatched.log.entries # <<>>
    /\ prevLog # <<>>
    /\ ~IsPrefix(prevLog, log)
    /\ getState.log = dispatched.log.entries

\* C3: after an UPDATE the log is the log before it followed by the
\* deltalog the action carried, every earlier entry in its place; an UPDATE
\* without a deltalog leaves the log as it was.
C3_UpdateAppendsDeltalog ==
    dispatched.type = UPDATE =>
        /\ log = prevLog \o OrEmpty(dispatched.deltalog)
        /\ \A i \in 1..Len(prevLog) : log[i] = prevLog[i]
        /\ (~dispatched.deltalog.present => log = prevLog)

\* an UPDATE carrying a deltalog was appended to a log that was not empty
C3_Witness ==
    /\ dispatched.type = UPDATE
    /\ dispatched.deltalog.present
    /\ dispatched.deltalog.entries # <<>>
    /\ prevLog # <<>>
    /\ Len(log) = Len(prevLog) + Len(dispatched.deltalog.entries)

\* C4: after client.reset() the log is empty, whatever it held before.
C4_ResetClearsLog ==
    dispatched.type = RESET => log = <<>>

\* a reset emptied a log that was not empty
C4_Witness ==
    /\ via = "reset"
    /\ dispatched.type = RESET
    /\ prevLog # <<>>
    /\ log = <<>>

\* C5: in every step, the log before is a prefix of the log after unless
\* the action dispatched is RESET or SYNC; undo, redo and an action of any
\* other type leave the log exactly as it was.
C5_LogOnlyGrows ==
    [][/\ (dispatched'.type \notin {RESET, SYNC} => IsPrefix(log, log'))
       /\ (dispatched'.type \in {UNDO, REDO, OTHER_TYPE} => log' = log)]_vars

\* an undo went through while the log was not empty, and the log stands
C5_Witness ==
    /\ dispatched.type = UNDO
    /\ prevLog # <<>>
    /\ log = prevLog

\* C6, as claimed: in single-player mode with no playerID (unset or null),
\* getState().isActive is true in every reachable state.
C6_AlwaysActive ==
    SinglePlayer /\ Unset(playerID) => getState.isActive

\* C6, amended: in single-player mode with no playerID, getState().isActive
\* is true exactly while ctx.gameover is undefined, whoever the current
\* player is and whether or not anybody can move.
C6_ActiveUntilGameover ==
    SinglePlayer /\ Unset(playerID) => (getState.isActive <=> ~GameOver)

\* single-player, playerID null, nobody can move for it, and still active
C6_Witness ==
    /\ SinglePlayer
    /\ playerID = Null
    /\ state.ctx.currentPlayer = "1"
    /\ ~CanMove
    /\ ~GameOver
    /\ getState.isActive

\* C7: in single-player mode with a concrete playerID p, getState().isActive
\* is false when ctx.gameover is defined and otherwise is
\* canPlayerMakeMove(G, ctx, p).
C7_SinglePlayerConcrete ==
    SinglePlayer /\ playerID \in PlayerIDs =>
        (getState.isActive <=> (~GameOver /\ CanMove))

\* single-player, player "1" could move, but the game is over
C7_Witness ==
    /\ SinglePlayer
    /\ playerID = "1"
    /\ CanMove
    /\ GameOver
    /\ ~getState.isActive

\* C8: in multiplayer mode, for every playerID (null and unset included),
\* getState().isActive is false when ctx.gameover is defined and otherwise
\* is canPlayerMakeMove(G, ctx, playerID).
C8_Multiplayer ==
    Truthy(multiplayer) =>
        (getState.isActive <=> (~GameOver /\ CanMove))

\* multiplayer, playerID null, the game goes on, the player cannot move
C8_Witness ==
    /\ Truthy(multiplayer)
    /\ playerID = Null
    /\ ~GameOver
    /\ ~CanMove
    /\ ~getState.isActive

\* C9: every action a move or event dispatcher sends carries, in
\* single-player mode with an unset or null playerID, ctx.currentPlayer of
\* the store at the moment of the call, and in every other case the
\* configured playerID unchanged.
C9_PlayerIDResolvedAtCall ==
    [][IsMove(dispatched') =>
          dispatched'.playerID =
              IF SinglePlayer /\ Unset(playerID)
              THEN state.ctx.currentPlayer
              ELSE playerID]_vars

\* a dispatcher built when player "0" was the current player sent "1"
C9_Witness ==
    /\ SinglePlayer
    /\ Unset(playerID)
    /\ via = "moves"
    /\ dispatched.type = MAKE_MOVE
    /\ dispatched.playerID = "1"
    /\ InitialState.ctx.currentPlayer = "0"

\* C10, as claimed: after updatePlayerID("1") on a client whose playerID
\* was another concrete id, a move dispatcher obtained before the update
\* sends playerID "1".
C10_HeldDispatcherFollowsUpdate ==
    /\ via = "heldMoves"
    /\ playerID = "1"
    /\ heldMoves.playerID \in PlayerIDs \ {"1"}
    => dispatched.playerID = "1"

\* C10, amended: a move dispatcher obtained before updatePlayerID("1") goes
\* on sending the concrete id it was built with; a dispatcher read from
\* client.moves after the update sends the new id.
C10_HeldDispatcherKeepsItsID ==
    /\ (via = "heldMoves" /\ heldMoves.playerID \in PlayerIDs
            => dispatched.playerID = heldMoves.playerID)
    /\ (via = "moves" /\ playerID \in PlayerIDs
            => dispatched.playerID = playerID)

\* a dispatcher kept from before updatePlayerID("1") sent the old id "0"
C10_Witness ==
    /\ via = "heldMoves"
    /\ dispatched.type = MAKE_MOVE
    /\ heldMoves.playerID = "0"
    /\ playerID = "1"
    /\ moves.playerID = "1"
    /\ dispatched.playerID = "0"

\* C11: after any sequence of updatePlayerID, updateGameID and
\* updateCredentials, client.moves and client.events are the dispatchers
\* built from the client's current playerID and credentials, and an action
\* sent through them carries the current credentials and, when the
\* playerID is concrete or the client is multiplayer, the current playerID.
C11_DispatchersFollowIdentity ==
    /\ moves = createDispatchers(playerID, credentials, multiplayer)
    /\ events = createDispatchers(playerID, credentials, multiplayer)
    /\ (via \in {"moves", "events"} =>
           /\ dispatched.credentials = credentials
           /\ (~Unset(playerID) \/ Truthy(multiplayer) =>
                  dispatched.playerID = playerID))

\* a move went out with the credentials and the playerID set by the
\* mutators, after the gameID was changed too
C11_Witness ==
    /\ via = "moves"
    /\ gameID = "game2"
    /\ credentials = "secret"
    /\ playerID = Null
    /\ Truthy(multiplayer)
    /\ dispatched.credentials = "secret"
    /\ dispatched.playerID = Null

\* C12: right after any dispatch has returned (a move, an event, reset,
\* undo, redo, a remote UPDATE or SYNC), getState().log is the client's log
\* as the middleware reconciled it for that action, and it is never the
\* log field of the store's state, even when the state has one.
C12_GetStateShowsClientLog ==
    dispatched # NoAction =>
        /\ getState.log =
               CASE IsMove(dispatched) -> prevLog \o state.deltalog
                 [] dispatched.type = RESET -> <<>>
                 [] dispatched.type = UPDATE ->
                        prevLog \o OrEmpty(dispatched.deltalog)
                 [] dispatched.type = SYNC -> OrEmpty(dispatched.log)
                 [] OTHER -> prevLog
        /\ getState.log = log

\* after a move the store's state has a log field that differs from the
\* client's log, and getState() shows the client's
C12_Witness ==
    /\ dispatched.type = MAKE_MOVE
    /\ produced # <<>>
    /\ state.log.present
    /\ state.log.entries # log
    /\ getState.log = prevLog \o produced

\* C13: for every dispatched action the middleware updates the client's
\* log before the store notifies its subscribers: the log a subscribed
\* callback reads with getState() is already the log after that action.
C13_SubscriberSeesUpdatedLog ==
    notified.present => notified.entries = log

\* C14: the log is empty at construction, and whenever a dispatched action
\* turns a log that was not empty into an empty one, that action is RESET:
\* no move, event, UPDATE, SYNC, undo or redo ever empties the log.
C14_OnlyResetEmptiesLog ==
    dispatched # NoAction /\ prevLog # <<>> /\ log = <<>> =>
        dispatched.type = RESET

\* C14, amended: the log is empty at construction, and an action that
\* turns a log that was not empty into an empty one is RESET, or a SYNC
\* that carries an empty log or no log at all.
C14_OnlyResetOrEmptySyncEmptiesLog ==
    /\ log = <<>>
    /\ [][log # <<>> /\ log' = <<>> =>
             \/ dispatched'.type = RESET
             \/ /\ dispatched'.type = SYNC
                /\ OrEmpty(dispatched'.log) = <<>>]_vars

\* a SYNC without a log emptied a log that held entries
C14_Witness ==
    /\ dispatched.type = SYNC
    /\ ~dispatched.log.present
    /\ prevLog # <<>>
    /\ log = <<>>

\* C15: in multiplayer mode, after construction and after any sequence of
\* updatePlayerID and updateGameID, the transport's playerID and gameID are
\* the client's; updateCredentials changes the client's credentials only
\* and calls no method of the transport.
C15_TransportFollowsIdentity ==
    /\ Truthy(multiplayer) =>
           /\ transport.attached
           /\ transport.playerID = playerID
           /\ transport.gameID = gameID
    /\ [][Truthy(multiplayer') =>
             /\ transport'.attached
             /\ transport'.playerID = playerID'
             /\ transport'.gameID = gameID'
             /\ (called'.op = "updateCredentials" =>
                    /\ called'.transport = "none"
                    /\ transport' = transport
                    /\ playerID' = playerID
                    /\ gameID' = gameID)]_vars

\* the transport was told the new gameID, after updateCredentials had
\* been called
C15_Witness ==
    /\ Truthy(multiplayer)
    /\ called.op = "updateGameID"
    /\ called.transport = "updateGameID"
    /\ credentials = "secret"
    /\ playerID = "1"
    /\ gameID = "game2"
    /\ transport = Transport("game2", "1")

\* C16: with an enhancer of the caller, for every dispatched action the
\* caller's middleware runs when the client's log already reflects that
\* action, and the log update for the action is applied on every dispatch,
\* whatever the caller's middleware does with the action.
C16_CallerMiddlewareSeesUpdatedLog ==
    mwSaw.present =>
        /\ mwSaw.entries = log
        /\ log = LogMiddleware(prevLog, dispatched, state)

\* ctx.actionPlayers[0] of the store's state
FirstActionPlayer ==
    IF state.ctx.actionPlayers = <<>> THEN Undef ELSE state.ctx.actionPlayers[1]

\* C17: step() is defined exactly when the client was given an ai and no
\* multiplayer option. Each call asks the bot once, about the store's
\* state and ctx.actionPlayers[0]. When the bot returns an action, that
\* action gets the bot's metadata, is dispatched exactly once and is what
\* step() returns; when the bot returns none, nothing is dispatched and the
\* store's state and the client's log stay as they were.
C17_StepDispatchesBotAction ==
    /\ step <=> (ai # Undef /\ multiplayer = Undef)
    /\ [][/\ step' <=> (ai' # Undef /\ multiplayer' = Undef)
          /\ (stepped'.called =>
                 /\ step
                 /\ stepped'.asked = FirstActionPlayer
                 /\ IF stepped'.returned # NoAction
                    THEN /\ dispatched' = stepped'.returned
                         /\ dispatched'.metadata = BotMetadata
                         /\ via' = "step"
                         /\ \E o \in GameOutcomes(MoveEntry) :
                                state' = Reducer(state, dispatched', o)
                         /\ log' = log \o state'.deltalog
                    ELSE /\ dispatched' = NoAction
                         /\ via' = "none"
                         /\ state' = state
                         /\ log' = log)]_vars

\* the bot, asked about "any", found nothing to play: nothing was
\* dispatched and the log kept its entries
C17_Witness ==
    /\ step
    /\ stepped.called
    /\ stepped.asked = "any"
    /\ stepped.returned = NoAction
    /\ dispatched = NoAction
    /\ log # <<>>
    /\ log = prevLog

C19_NullIsUnset ==
    SinglePlayer =>
        /\ isActiveOf(multiplayer, Null, state) =
               isActiveOf(multiplayer, Undef, state)
        /\ assumedPlayerID(createDispatchers(Null, credentials, multiplayer),
                           state) =
               assumedPlayerID(createDispatchers(Undef, credentials,
                                                 multiplayer), state)
        /\ (Unset(playerID) =>
               /\ getState.isActive = isActiveOf(multiplayer, Undef, state)
               /\ assumedPlayerID(moves, state) = state.ctx.currentPlayer
               /\ assumedPlayerID(events, state) = state.ctx.currentPlayer)

\* after updatePlayerID(null) a move went out for player "1", the current
\* player at the call, and the client is active although no player can move
C19_Witness ==
    /\ SinglePlayer
    /\ playerID = Null
    /\ via = "moves"
    /\ dispatched.playerID = "1"
    /\ state.ctx.actionPlayers = <<>>
    /\ getState.isActive

============================================================================
